---------------------------- MODULE Spec2Model ----------------------------
(***************************************************************************)
(* Model of ethanbailie/example_repo: the ingestion script (data_pull.py), *)
(* the Embedder and Retriever classes (toolbox.py), the composite tool     *)
(* find_relevant_diffs (agent_tools.py) and the agent loop (agent.py).     *)
(*                                                                         *)
(* Time is counted in whole hours since an arbitrary epoch (UTC).  Python  *)
(* values that may be a list or a dict carry their type in a "type" field. *)
(***************************************************************************)
EXTENDS Integers, Sequences, FiniteSets, TLC

(***************************************************************************)
(* Bounds of the model                                                     *)
(***************************************************************************)
\* number of pull requests the host knows (numbered 1..NumPRs)
NumPRs == 2
\* records per list page the model's host returns (stands for per_page=100)
PerPage == 1
\* the clock stops advancing at MaxTime hours
MaxTime == 36
\* hours the clock advances per Tick
TickHours == 6
\* reasoning steps explored per agent session
MaxLlmCalls == 2
\* tool calls the model may request in one assistant message
MaxToolCalls == 2
\* runs of the ingestion script explored
MaxRuns == 2

(***************************************************************************)
(* Program constants                                                       *)
(***************************************************************************)
\* toolbox.py:160  timedelta(hours=12)
SearchWindowHours == 12
\* data_pull.py:12  hours_ago=36
HoursAgo == 36
\* agent_tools.py:19  top_k=5
TopK == 5

\* agent_tools.py:19 / data_pull.py:14  index_name='rootly'
IndexName == "rootly"

\* time zones (UTC offset in hours) the collecting process may run in
TZOffsets == {-5, 0, 5}
\* instants (hours, before the clock starts at 0) at which a pull request
\* may have been last updated
UpdateTimes == {-8, -2}
\* abstract embedding vectors returned by the embedding service
Vectors == {1, 2}

PRNumbers == 1..NumPRs

VARIABLES
    prs,        \* host: pull request number -> change object
    tz,         \* UTC offset of the local time zone of the collecting process
    env,        \* credentials present in the environment
    now,        \* the clock, hours (UTC)
    indexes,    \* vector index service: existing index name -> set of entries
    stored_before,  \* history: the entries of the index before the last index.upsert
    embedder,   \* data_pull.py:11 embedder, <<>> before construction
    spc,        \* position of the ingestion script data_pull.py
    runs,       \* runs of the ingestion script started so far
    recent_pull_requests,  \* data_pull.py:12
    embed_vectors,         \* data_pull.py:13
    retriever,  \* agent_tools.py:9 retriever, <<>> before construction
    op,         \* the operation that ran last ("tick" once the clock advanced)
    ret,        \* what the last Retriever / tool call returned
    netlog,     \* the requests the last operation issued, in order
    reasoner_input,  \* agent_tools.py:28 diffs_with_metadata of the last tool call
    messages,   \* AgentState.messages
    apc,        \* position of the agent graph: "llm", "action", "END", ...
    executed,   \* names of the tools invoked by the last take_action
    output,     \* agent.py:87 output
    printed     \* agent.py:93 what was printed, <<>> before

hostVars == <<prs, tz, env>>
scriptVars == <<embedder, spc, runs, recent_pull_requests, embed_vectors>>
agentVars == <<messages, apc, executed, output, printed>>
vars == <<prs, tz, env, now, indexes, stored_before, embedder, spc, runs, recent_pull_requests,
          embed_vectors, retriever, op, ret, netlog, reasoner_input,
          messages, apc, executed,
          output, printed>>

(***************************************************************************)
(* The source-control host                                                 *)
(***************************************************************************)
Credentials == {"GITHUB_TOKEN", "PINECONE_API_KEY", "COHERE_API_KEY"}

\* html_url of pull request n, as its path segments (split on "/")
HtmlUrl(n) == <<"https://github.com", "ethanbailie", "agentic_code_observer", "pull", n>>

\* the change object the host serves for pull request n; merged_at is <<>>
\* when the host reports null
ChangeObject(n, updated, merged) ==
    [id |-> 100 + n,
     title |-> "title",
     body |-> "body",
     state |-> IF merged THEN "closed" ELSE "open",
     updated_at |-> updated,
     html_url |-> HtmlUrl(n),
     merged_at |-> IF merged THEN <<updated>> ELSE <<>>,
     merge_commit_sha |-> n]

Hosts ==
    {[n \in PRNumbers |-> ChangeObject(n, u[n], m[n])] :
        u \in [PRNumbers -> UpdateTimes], m \in [PRNumbers -> BOOLEAN]}

\* a request as recorded in netlog; auth is FALSE when it was sent with a
\* credential that is missing from the environment; status is the status of
\* the response
Req(kind, arg, auth) == [kind |-> kind, arg |-> arg, auth |-> auth, status |-> 200]

\* the host lists pull requests newest first (by number), PerPage per page
ListPage(page) ==
    [i \in 1..(IF NumPRs - (page - 1) * PerPage >= PerPage THEN PerPage
               ELSE IF NumPRs - (page - 1) * PerPage > 0
                    THEN NumPRs - (page - 1) * PerPage ELSE 0)
        |-> prs[NumPRs - (page - 1) * PerPage - i + 1]]

\* status of the list request for a page: the host refuses a request without
\* a token, and the request for page failPage (0: none) fails
ListStatus(page, failPage, auth) ==
    IF ~auth \/ page = failPage THEN 403 ELSE 200

\* the raw body the host returns for pull/<id>.diff (an error page for an
\* id it does not know or a request it refuses)
DiffBody(id, auth) ==
    IF auth /\ id \in PRNumbers THEN <<"diff", id>> ELSE <<"error page", id>>

\* the commit message the host returns for a merge commit: the response of a
\* commit in noCommit carries no "commit" object
CommitResponse(sha, noCommit) ==
    IF sha \in noCommit THEN [has_commit |-> FALSE, message |-> ""]
    ELSE [has_commit |-> TRUE, message |-> "merge message"]

(***************************************************************************)
(* Embedder (toolbox.py)                                                   *)
(***************************************************************************)
\* Embedder.__init__ / Retriever.__init__: the object keeps what os.getenv
\* returned; a field is FALSE when the variable is absent (None)
NewClient(environment) ==
    [cohere_api_key |-> "COHERE_API_KEY" \in environment,
     pinecone_api_key |-> "PINECONE_API_KEY" \in environment,
     github_token |-> "GITHUB_TOKEN" \in environment]

\* datetime.strptime(s, '%Y-%m-%dT%H:%M:%SZ').timestamp(): the parsed value
\* is naive, so timestamp() reads the UTC wall clock as local time
LocalTimestamp(updated_at, offset) == updated_at - offset

\* pr['updated_at'] >= recency_str, both ISO-8601 strings of a UTC instant
IsRecent(pr, recency) == pr.updated_at >= recency

\* the pagination loop leaving the loop (break) on a non-200 status instead
\* of returning []
RECURSIVE FetchPagesBreak(_, _, _, _, _, _)
FetchPagesBreak(page, acc, log, recency, failPage, auth) ==
    LET log1 == Append(log, [Req("list", page, auth) EXCEPT
                                !.status = ListStatus(page, failPage, auth)])
        recent_prs == SelectSeq(ListPage(page), LAMBDA pr : IsRecent(pr, recency))
    IN  IF ListStatus(page, failPage, auth) # 200 \/ recent_prs = <<>>
        THEN [aborted |-> FALSE, all_recent_prs |-> acc, log |-> log1]
        ELSE FetchPagesBreak(page + 1, acc \o recent_prs, log1, recency, failPage, auth)

\* the pagination loop going on until the host returns an empty page
RECURSIVE FetchPagesUntilEmpty(_, _, _, _, _, _)
FetchPagesUntilEmpty(page, acc, log, recency, failPage, auth) ==
    LET log1 == Append(log, [Req("list", page, auth) EXCEPT
                                !.status = ListStatus(page, failPage, auth)])
        recent_prs == SelectSeq(ListPage(page), LAMBDA pr : IsRecent(pr, recency))
    IN  IF ListStatus(page, failPage, auth) # 200
        THEN [aborted |-> TRUE, all_recent_prs |-> <<>>, log |-> log1]
        ELSE IF ListPage(page) = <<>>
        THEN [aborted |-> FALSE, all_recent_prs |-> acc, log |-> log1]
        ELSE FetchPagesUntilEmpty(page + 1, acc \o recent_prs, log1, recency, failPage, auth)

\* toolbox.py:44-62, the pagination loop from page on; acc is all_recent_prs
RECURSIVE FetchPages(_, _, _, _, _, _)
FetchPages(page, acc, log, recency, failPage, auth) ==
    LET log1 == Append(log, [Req("list", page, auth) EXCEPT
                                !.status = ListStatus(page, failPage, auth)])
        recent_prs == SelectSeq(ListPage(page), LAMBDA pr : IsRecent(pr, recency))
    IN  IF ListStatus(page, failPage, auth) # 200
        THEN [aborted |-> TRUE, all_recent_prs |-> <<>>, log |-> log1]
        ELSE IF recent_prs = <<>>
        THEN [aborted |-> FALSE, all_recent_prs |-> acc, log |-> log1]
        ELSE FetchPages(page + 1, acc \o recent_prs, log1, recency, failPage, auth)

\* toolbox.py:69-83, the dict built for one merged pull request
PrDetails(pr, offset, noCommit) ==
    [id |-> pr.id,
     title |-> pr.title,
     state |-> pr.state,
     description |-> pr.body,
     updated_at |-> LocalTimestamp(pr.updated_at, offset),
     url |-> pr.html_url,
     merge_description |->
        IF CommitResponse(pr.merge_commit_sha, noCommit).has_commit
        THEN CommitResponse(pr.merge_commit_sha, noCommit).message ELSE ""]

\* the commit request for a merge commit; the host answers a commit it
\* cannot serve with an error status and a body without a "commit" object
CommitReq(sha, noCommit, auth) ==
    [Req("commit", sha, auth) EXCEPT
        !.status = IF CommitResponse(sha, noCommit).has_commit THEN 200 ELSE 404]

\* the loop over all_recent_prs without the test of pr.get('merged_at')
RECURSIVE MergedDetailsKeepUnmerged(_, _, _, _, _, _)
MergedDetailsKeepUnmerged(all_recent_prs, all_prs, log, offset, noCommit, auth) ==
    IF all_recent_prs = <<>> THEN [all_prs |-> all_prs, log |-> log]
    ELSE LET pr == Head(all_recent_prs) IN
         MergedDetailsKeepUnmerged(Tail(all_recent_prs),
                            Append(all_prs, PrDetails(pr, offset, noCommit)),
                            Append(log, CommitReq(pr.merge_commit_sha, noCommit, auth)),
                            offset, noCommit, auth)

\* toolbox.py:67-85, the loop over all_recent_prs
RECURSIVE MergedDetails(_, _, _, _, _, _)
MergedDetails(all_recent_prs, all_prs, log, offset, noCommit, auth) ==
    IF all_recent_prs = <<>> THEN [all_prs |-> all_prs, log |-> log]
    ELSE LET pr == Head(all_recent_prs) IN
         IF pr.merged_at # <<>>
         THEN MergedDetails(Tail(all_recent_prs),
                            Append(all_prs, PrDetails(pr, offset, noCommit)),
                            Append(log, CommitReq(pr.merge_commit_sha, noCommit, auth)),
                            offset, noCommit, auth)
         ELSE MergedDetails(Tail(all_recent_prs), all_prs, log, offset, noCommit, auth)

\* Embedder.fetch_recent_prs at clock reading t: what it returns and the
\* requests it issues
FetchRecentPrs(self, hours_ago, t, offset, failPage, noCommit) ==
    LET fetched == FetchPages(1, <<>>, <<>>, t - hours_ago, failPage, self.github_token)
    IN  IF fetched.aborted
        THEN [all_prs |-> <<>>, log |-> fetched.log]
        ELSE MergedDetails(fetched.all_recent_prs, <<>>, fetched.log, offset,
                           noCommit, self.github_token)

\* pr['url'].split('/')[-1]
UrlLastSegment(url) == url[Len(url)]

\* toolbox.py:102-107
Metadata(pr) ==
    [title |-> pr.title, state |-> pr.state, updated_at |-> pr.updated_at,
     url |-> pr.url]

\* zip(ids, embeddings_list, metadatas): as long as the shortest argument
Zip3(ids, embeddings_list, metadatas) ==
    LET n == IF Len(embeddings_list) < Len(ids) THEN Len(embeddings_list) ELSE Len(ids)
    IN  [i \in 1..n |-> [id |-> ids[i], values |-> embeddings_list[i],
                         metadata |-> metadatas[i]]]

\* Embedder.embed_pr_data; embeddings_list is what the embedding service
\* answers to embed_documents(texts)
EmbedPrData(self, pr_data_list, embeddings_list) ==
    IF pr_data_list = <<>>
    THEN [vectors |-> <<>>, log |-> <<>>]
    ELSE LET ids == [i \in 1..Len(pr_data_list) |-> UrlLastSegment(pr_data_list[i].url)]
             metadatas == [i \in 1..Len(pr_data_list) |-> Metadata(pr_data_list[i])]
             log == <<Req("embed_documents", Len(pr_data_list), self.cohere_api_key)>>
         IN  [vectors |-> Zip3(ids, embeddings_list, metadatas), log |-> log]

\* index.upsert(vectors) on the stored entries of one index: the service
\* writes each vector under its id, replacing what was stored under that id
RECURSIVE IndexUpsert(_, _)
IndexUpsert(entries, vectors) ==
    IF vectors = <<>> THEN entries
    ELSE IndexUpsert({e \in entries : e.id # Head(vectors).id} \cup {Head(vectors)},
                     Tail(vectors))

\* upsert_to_pinecone writing the vectors only to an index it has just
\* created (index.upsert under the if of toolbox.py:130)
UpsertToPineconeOnlyNew(self, idx, vectors, index_name) ==
    IF vectors = <<>>
    THEN [indexes |-> idx, log |-> <<>>]
    ELSE IF index_name \in DOMAIN idx
    THEN [indexes |-> idx, log |-> <<Req("list_indexes", 0, self.pinecone_api_key)>>]
    ELSE [indexes |-> idx @@ (index_name :> IndexUpsert({}, vectors)),
          log |-> <<Req("list_indexes", 0, self.pinecone_api_key),
                    Req("create_index", <<1024, "cosine">>, self.pinecone_api_key),
                    Req("upsert", Len(vectors), self.pinecone_api_key)>>]

\* upsert_to_pinecone creating the index without looking at existing_index
UpsertToPineconeAlwaysCreate(self, idx, vectors, index_name) ==
    IF vectors = <<>>
    THEN [indexes |-> idx, log |-> <<>>]
    ELSE LET created == IF index_name \notin DOMAIN idx
                        THEN idx @@ (index_name :> {}) ELSE idx
         IN  [indexes |-> [created EXCEPT ![index_name] = IndexUpsert(@, vectors)],
              log |-> <<Req("list_indexes", 0, self.pinecone_api_key),
                        Req("create_index", <<1024, "cosine">>, self.pinecone_api_key),
                        Req("upsert", Len(vectors), self.pinecone_api_key)>>]

\* Embedder.upsert_to_pinecone on the index service state idx
UpsertToPinecone(self, idx, vectors, index_name) ==
    IF vectors = <<>>
    THEN [indexes |-> idx, log |-> <<>>]
    ELSE LET existing_index == DOMAIN idx
             created == IF index_name \notin existing_index
                        THEN idx @@ (index_name :> {}) ELSE idx
             log == <<Req("list_indexes", 0, self.pinecone_api_key)>>
                    \o (IF index_name \notin existing_index
                        THEN <<Req("create_index", <<1024, "cosine">>, self.pinecone_api_key)>>
                        ELSE <<>>)
                    \o <<Req("upsert", Len(vectors), self.pinecone_api_key)>>
         IN  [indexes |-> [created EXCEPT ![index_name] = IndexUpsert(@, vectors)],
              log |-> log]

(***************************************************************************)
(* The ingestion script (data_pull.py)                                     *)
(***************************************************************************)
\* responses the embedding service may give to a request of n texts: one
\* vector per text, or one vector too few or too many
EmbedResponses(n) ==
    [1..n -> Vectors]
        \cup {[i \in 1..k |-> CHOOSE v \in Vectors : TRUE] : k \in {n - 1, n + 1} \cap Nat}

\* CohereEmbeddings(model=...) and Pinecone(api_key=None) raise when their
\* key is missing; nothing checks the token
ConstructionRaises(environment) ==
    ~({"COHERE_API_KEY", "PINECONE_API_KEY"} \subseteq environment)

\* data_pull.py:11  embedder = Embedder()
ConstructEmbedder ==
    /\ spc \in {"start", "done"}
    /\ runs < MaxRuns
    /\ runs' = runs + 1
    /\ IF ConstructionRaises(env)
       THEN /\ spc' = "error"
            /\ embedder' = <<>>
       ELSE /\ spc' = "constructed"
            /\ embedder' = NewClient(env)
    /\ recent_pull_requests' = <<>>
    /\ embed_vectors' = <<>>
    /\ op' = "Embedder"
    /\ netlog' = <<>>
    /\ UNCHANGED <<hostVars, now, indexes, stored_before, retriever, ret, reasoner_input, agentVars>>

\* data_pull.py:12
FetchRecentPrsStep ==
    /\ spc = "constructed"
    /\ \E failPage \in 0..(NumPRs \div PerPage + 1), noCommit \in {{}} \cup {{n} : n \in PRNumbers} :
          LET r == FetchRecentPrs(embedder, HoursAgo, now, tz, failPage, noCommit)
          IN  /\ recent_pull_requests' = r.all_prs
              /\ netlog' = r.log
    /\ spc' = "fetched"
    /\ op' = "fetch_recent_prs"
    /\ UNCHANGED <<hostVars, now, indexes, stored_before, embedder, runs, embed_vectors,
                   retriever, ret, reasoner_input, agentVars>>

\* data_pull.py:13
EmbedPrDataStep ==
    /\ spc = "fetched"
    /\ \E embeddings_list \in EmbedResponses(Len(recent_pull_requests)) :
          LET r == EmbedPrData(embedder, recent_pull_requests, embeddings_list)
          IN  /\ embed_vectors' = r.vectors
              /\ netlog' = r.log
    /\ spc' = "embedded"
    /\ op' = "embed_pr_data"
    /\ UNCHANGED <<hostVars, now, indexes, stored_before, embedder, runs, recent_pull_requests,
                   retriever, ret, reasoner_input, agentVars>>

\* data_pull.py:14
UpsertToPineconeStep ==
    /\ spc = "embedded"
    /\ LET r == UpsertToPinecone(embedder, indexes, embed_vectors, IndexName)
       IN  /\ indexes' = r.indexes
           /\ netlog' = r.log
    /\ spc' = "done"
    /\ stored_before' = IF embed_vectors = <<>> THEN stored_before
                       ELSE IF IndexName \in DOMAIN indexes
                       THEN indexes[IndexName] ELSE {}
    /\ op' = "upsert_to_pinecone"
    /\ UNCHANGED <<hostVars, now, embedder, runs, recent_pull_requests,
                   embed_vectors, retriever, ret, reasoner_input, agentVars>>

\* time passes between operations (only fetch_recent_prs and semantic_search
\* read the clock, so it is advanced between runs of the script)
Tick ==
    /\ spc \in {"start", "done"}
    /\ now + TickHours <= MaxTime
    /\ now' = now + TickHours
    /\ op' = "tick"
    /\ UNCHANGED <<hostVars, indexes, stored_before, scriptVars, retriever, ret, netlog,
                   reasoner_input, agentVars>>

(***************************************************************************)
(* Retriever (toolbox.py) and the composite tool (agent_tools.py)          *)
(***************************************************************************)
\* the filter {'updated_at': {'$gte': cutoff_time}} on one stored entry
PassesFilter(entry, cutoff_time) == entry.metadata.updated_at >= cutoff_time

\* the service's answer to index.query: the top_k entries that pass the
\* filter, best score first; the score of an entry against the query is
\* abstracted to its stored vector, ties broken by id
RECURSIVE BestFirst(_, _)
BestFirst(entries, top_k) ==
    IF entries = {} \/ top_k = 0 THEN <<>>
    ELSE LET best == CHOOSE e \in entries : \A o \in entries :
                        \/ o.values < e.values
                        \/ (o.values = e.values /\ o.id >= e.id)
         IN  <<[id |-> best.id, score |-> best.values, metadata |-> best.metadata]>>
             \o BestFirst(entries \ {best}, top_k - 1)

\* Retriever.semantic_search at clock reading t; the query of an index that
\* does not exist raises
SemanticSearch(self, idx, index_name, top_k, t) ==
    LET cutoff_time == t - SearchWindowHours
        log == <<Req("embed_query", 0, self.cohere_api_key),
                 Req("query", top_k, self.pinecone_api_key)>>
    IN  IF index_name \notin DOMAIN idx
        THEN [matches |-> <<>>, log |-> log, raised |-> TRUE]
        ELSE [matches |-> BestFirst({e \in idx[index_name] :
                                        PassesFilter(e, cutoff_time)}, top_k),
              log |-> log, raised |-> FALSE]

\* toolbox.py:177-187, the loop over pr_ids; diffs is the dict built so far
RECURSIVE DiffLoop(_, _, _, _)
DiffLoop(pr_ids, diffs, log, auth) ==
    IF pr_ids = <<>> THEN [diffs |-> diffs, log |-> log]
    ELSE LET pr_id == Head(pr_ids)
             body == DiffBody(pr_id, auth)
         IN  DiffLoop(Tail(pr_ids),
                      [k \in DOMAIN diffs \cup {pr_id} |->
                          IF k = pr_id THEN body ELSE diffs[k]],
                      Append(log, Req("diff", pr_id, auth)), auth)

\* get_diffs fetching the diff of the first id only
GetDiffsFirstOnly(self, pr_ids) ==
    IF pr_ids = <<>>
    THEN [value |-> [type |-> "list", items |-> <<>>], log |-> <<>>]
    ELSE LET r == DiffLoop(<<Head(pr_ids)>>, <<>>, <<>>, self.github_token)
         IN  [value |-> [type |-> "dict", items |-> r.diffs], log |-> r.log]

\* Retriever.get_diffs
GetDiffs(self, pr_ids) ==
    IF pr_ids = <<>>
    THEN [value |-> [type |-> "list", items |-> <<>>], log |-> <<>>]
    ELSE LET r == DiffLoop(pr_ids, <<>>, <<>>, self.github_token)
         IN  [value |-> [type |-> "dict", items |-> r.diffs], log |-> r.log]

\* diffs[pr['id']] succeeds on a dict that has the key
HasKey(value, key) == value.type = "dict" /\ key \in DOMAIN value.items

\* agent_tools.py:20-21, the list prs built from the matches
FoundPrs(matches) ==
    [i \in 1..Len(matches) |-> [id |-> matches[i].id, url |-> matches[i].metadata.url]]

\* agent_tools.py:24
PrIds(found) == [i \in 1..Len(found) |-> found[i].id]

\* agent_tools.py:28, the dict comprehension over prs (a later pr with the
\* same id overwrites an earlier one)
DiffsWithMetadata(found, diffs) ==
    [k \in {found[i].id : i \in 1..Len(found)} |->
        LET last == CHOOSE i \in 1..Len(found) :
                        /\ found[i].id = k
                        /\ \A j \in 1..Len(found) : found[j].id = k => j <= i
        IN  [url |-> found[last].url, diff |-> diffs.items[k]]]

\* agent_tools.py:28-49, from the dict comprehension on
JudgeDiffs(self, found, diffs, log) ==
    IF \E i \in 1..Len(found) : ~HasKey(diffs, found[i].id)
    THEN [value |-> "", log |-> log, candidates |-> <<>>, raised |-> TRUE]
    ELSE [value |-> "verdict",
          log |-> Append(log, Req("chat", Len(found), self.cohere_api_key)),
          candidates |-> DiffsWithMetadata(found, diffs),
          raised |-> FALSE]

\* agent_tools.py:25-49, from get_diffs on
FetchAndJudge(self, found, fetched, log) ==
    JudgeDiffs(self, found, fetched.value, log \o fetched.log)

\* agent_tools.py:20-49, from the loop over the matches on
AfterSearch(self, search_results) ==
    IF search_results.raised
    THEN [value |-> "", log |-> search_results.log, candidates |-> <<>>,
          raised |-> TRUE]
    ELSE FetchAndJudge(self, FoundPrs(search_results.matches),
                       GetDiffs(self, PrIds(FoundPrs(search_results.matches))),
                       search_results.log)

\* find_relevant_diffs at clock reading t: what it returns, the requests it
\* issues and the candidate set it hands to the reasoner
FindRelevantDiffs(self, idx, t) ==
    AfterSearch(self, SemanticSearch(self, idx, IndexName, TopK, t))

\* agent_tools.py:9  retriever = Retriever()
ConstructRetriever ==
    /\ retriever = <<>>
    /\ op # "Retriever"
    /\ IF ConstructionRaises(env)
       THEN retriever' = <<>>
       ELSE retriever' = NewClient(env)
    /\ op' = "Retriever"
    /\ netlog' = <<>>
    /\ ret' = <<>>
    /\ UNCHANGED <<hostVars, now, indexes, stored_before, scriptVars, reasoner_input, agentVars>>

\* a call of Retriever.semantic_search
SemanticSearchCall ==
    /\ retriever # <<>>
    /\ LET r == SemanticSearch(retriever, indexes, IndexName, TopK, now)
       IN  /\ ret' = [type |-> IF r.raised THEN "raised" ELSE "matches",
                      items |-> r.matches]
           /\ netlog' = r.log
    /\ op' = "semantic_search"
    /\ UNCHANGED <<hostVars, now, indexes, stored_before, scriptVars, retriever, reasoner_input,
                   agentVars>>

\* a call of Retriever.get_diffs
GetDiffsCall ==
    /\ retriever # <<>>
    /\ \E pr_ids \in UNION {[1..k -> 1..(NumPRs + 1)] : k \in 0..2} :
          LET r == GetDiffs(retriever, pr_ids)
          IN  /\ ret' = [type |-> r.value.type, items |-> r.value.items,
                         pr_ids |-> pr_ids]
              /\ netlog' = r.log
    /\ op' = "get_diffs"
    /\ UNCHANGED <<hostVars, now, indexes, stored_before, scriptVars, retriever, reasoner_input,
                   agentVars>>

\* what a call of the tool leaves behind, r being what it did
ToolUpdate(r) ==
    /\ ret' = [type |-> IF r.raised THEN "raised" ELSE "str", items |-> r.value]
    /\ netlog' = r.log
    /\ reasoner_input' = r.candidates

\* a call of the tool find_relevant_diffs
FindRelevantDiffsCall ==
    /\ retriever # <<>>
    /\ ToolUpdate(FindRelevantDiffs(retriever, indexes, now))
    /\ op' = "find_relevant_diffs"
    /\ UNCHANGED <<hostVars, now, indexes, stored_before, scriptVars, retriever, agentVars>>

(***************************************************************************)
(* The agent (agent.py)                                                    *)
(***************************************************************************)
\* agent.py:84  tools=[find_relevant_diffs, search_tool], keyed by name
ToolNames == {"find_relevant_diffs", "tavily_search_results_json"}
\* names the model may put in a tool call: the registered ones and another
RequestedNames == ToolNames \cup {"no_such_tool"}

\* agent.py:80
HumanMessage ==
    [role |-> "human", content |-> "Broken pinecone upsert", tool_calls |-> <<>>,
     tool_call_id |-> <<>>, name |-> ""]

\* the text of the n-th answer of the model
AIText(n) ==
    CASE n = 1 -> "answer 1" [] n = 2 -> "answer 2" [] n = 3 -> "answer 3"
      [] OTHER -> "a later answer"

\* the n-th assistant message, requesting the tools named in names
AIMessage(n, names) ==
    [role |-> "ai", content |-> AIText(n),
     tool_calls |-> [i \in 1..Len(names) |->
                        [id |-> <<n, i>>, name |-> names[i], args |-> "issue"]],
     tool_call_id |-> <<>>, name |-> ""]

\* agent.py:75
ToolMessage(t, result) ==
    [role |-> "tool", content |-> result, tool_calls |-> <<>>,
     tool_call_id |-> t.id, name |-> t.name]

\* reasoning steps taken so far in the session
LlmCalls(msgs) == Cardinality({i \in 1..Len(msgs) : msgs[i].role = "ai"})

\* exists_action asking for more than one tool call
ExistsActionMoreThanOne(msgs) == Len(msgs[Len(msgs)].tool_calls) > 1

\* Agent.exists_action
ExistsAction(msgs) == Len(msgs[Len(msgs)].tool_calls) > 0

\* agent.py:74 for the tool find_relevant_diffs, r being what it did
Invoked(t, r) ==
    [result |-> r.value, invoked |-> <<t.name>>, log |-> r.log,
     candidates |-> <<r.candidates>>, raised |-> r.raised]

\* dispatch without the check of agent.py:70: self.tools[t['name']] raises
\* KeyError for a name that is not registered
DispatchUnchecked(t, tools, self, idx, clock) ==
    IF t.name \notin tools
    THEN [result |-> "", invoked |-> <<>>, log |-> <<>>, candidates |-> <<>>,
          raised |-> TRUE]
    ELSE IF t.name = "find_relevant_diffs"
    THEN Invoked(t, FindRelevantDiffs(self, idx, clock))
    ELSE [result |-> "web results", invoked |-> <<t.name>>,
          log |-> <<Req("web_search", 4, TRUE)>>, candidates |-> <<>>,
          raised |-> FALSE]

\* agent.py:70-74, one tool call t: the result, the tool invoked (if any),
\* the requests it issued and the candidates it handed to the reasoner
Dispatch(t, tools, self, idx, clock) ==
    IF t.name \notin tools
    THEN [result |-> "bad tool name, retry", invoked |-> <<>>, log |-> <<>>,
          candidates |-> <<>>, raised |-> FALSE]
    ELSE IF t.name = "find_relevant_diffs"
    THEN Invoked(t, FindRelevantDiffs(self, idx, clock))
    ELSE [result |-> "web results", invoked |-> <<t.name>>,
          log |-> <<Req("web_search", 4, TRUE)>>, candidates |-> <<>>,
          raised |-> FALSE]

\* results = [ToolMessage(...)] in place of results.append(...): only the
\* message of the last tool call is kept
CollectOverwrite(acc, t, d) ==
    [results |-> IF d.raised THEN acc.results
                 ELSE <<ToolMessage(t, d.result)>>,
     invoked |-> acc.invoked \o d.invoked,
     log |-> acc.log \o d.log,
     candidates |-> acc.candidates \o d.candidates,
     raised |-> d.raised]

\* agent.py:75, the results after tool call t was dispatched as d
Collect(acc, t, d) ==
    [results |-> IF d.raised THEN acc.results
                 ELSE Append(acc.results, ToolMessage(t, d.result)),
     invoked |-> acc.invoked \o d.invoked,
     log |-> acc.log \o d.log,
     candidates |-> acc.candidates \o d.candidates,
     raised |-> d.raised]

\* agent.py:68-75, the loop over tool_calls
RECURSIVE RunToolCalls(_, _, _, _, _, _)
RunToolCalls(tool_calls, acc, tools, self, idx, clock) ==
    IF tool_calls = <<>> \/ acc.raised THEN acc
    ELSE RunToolCalls(Tail(tool_calls),
                      Collect(acc, Head(tool_calls),
                              Dispatch(Head(tool_calls), tools, self, idx, clock)),
                      tools, self, idx, clock)

\* take_action on a state whose messages are replaced by the returned ones
\* (AgentState.messages without the operator.add reducer of agent.py:35)
ActionUpdateReplace(r) ==
    /\ executed' = r.invoked
    /\ netlog' = r.log
    /\ reasoner_input' = IF r.candidates = <<>> THEN reasoner_input
                         ELSE r.candidates[Len(r.candidates)]
    /\ IF r.raised
       THEN /\ apc' = "raised"
            /\ UNCHANGED <<messages, output>>
       ELSE /\ apc' = "llm"
            /\ messages' = r.results
            /\ output' = Append(output, r.results)

\* Agent.take_action on the state (msgs), r being what the loop did
ActionUpdate(r) ==
    /\ executed' = r.invoked
    /\ netlog' = r.log
    /\ reasoner_input' = IF r.candidates = <<>> THEN reasoner_input
                         ELSE r.candidates[Len(r.candidates)]
    /\ IF r.raised
       THEN /\ apc' = "raised"
            /\ UNCHANGED <<messages, output>>
       ELSE /\ apc' = "llm"
            /\ messages' = messages \o r.results
            /\ output' = Append(output, r.results)

\* Agent.call_llm followed by the conditional edge of agent.py:43-47;
\* agent.py:7 has imported agent_tools, which built the retriever
CallLlm ==
    /\ retriever # <<>>
    /\ apc = "llm"
    /\ LlmCalls(messages) < MaxLlmCalls
    /\ \E names \in UNION {[1..k -> RequestedNames] : k \in 0..MaxToolCalls} :
          LET message == AIMessage(LlmCalls(messages) + 1, names)
          IN  /\ messages' = messages \o <<message>>
              /\ output' = Append(output, <<message>>)
    /\ apc' = IF ExistsAction(messages') THEN "action" ELSE "END"
    /\ op' = "call_llm"
    /\ netlog' = <<Req("chat", Len(messages), TRUE)>>
    /\ UNCHANGED <<hostVars, now, indexes, stored_before, scriptVars, retriever, ret,
                   reasoner_input, executed, printed>>

\* Agent.take_action followed by the edge of agent.py:48; a tool that
\* raises ends the program
TakeAction ==
    /\ apc = "action"
    /\ ActionUpdate(RunToolCalls(messages[Len(messages)].tool_calls,
                                 [results |-> <<>>, invoked |-> <<>>, log |-> <<>>,
                                  candidates |-> <<>>, raised |-> FALSE],
                                 ToolNames, retriever, indexes, now))
    /\ op' = "take_action"
    /\ UNCHANGED <<hostVars, now, indexes, stored_before, scriptVars, retriever, ret, printed>>

\* agent.py:93, after the stream of agent.py:89 has ended
PrintOutput ==
    /\ apc = "END"
    /\ apc' = "done"
    /\ printed' = <<output[Len(output)][Len(output[Len(output)])].content>>
    /\ op' = "print"
    /\ UNCHANGED <<hostVars, now, indexes, stored_before, scriptVars, retriever, ret, netlog,
                   reasoner_input, messages, executed, output>>

(***************************************************************************)
(* Specifications                                                          *)
(***************************************************************************)
\* a client built with every credential present
FullClient == NewClient(Credentials)

\* the index service after one run of data_pull.py at clock reading t in
\* which the embedding service answered embeddings_list
IndexesAfterIngest(t, offset, embeddings_list) ==
    UpsertToPinecone(FullClient, <<>>,
        EmbedPrData(FullClient,
                    FetchRecentPrs(FullClient, HoursAgo, t, offset, 0, {}).all_prs,
                    embeddings_list).vectors,
        IndexName).indexes

\* the pull requests the host reports as merged
Merged == {n \in PRNumbers : prs[n].merged_at # <<>>}

InitAgentVars ==
    /\ messages = <<HumanMessage>>
    /\ apc = "llm"
    /\ executed = <<>>
    /\ output = <<>>
    /\ printed = <<>>

InitCalls ==
    /\ op = "none"
    /\ ret = <<>>
    /\ netlog = <<>>
    /\ reasoner_input = <<>>

InitScript ==
    /\ embedder = <<>>
    /\ spc = "start"
    /\ runs = 0
    /\ recent_pull_requests = <<>>
    /\ embed_vectors = <<>>

\* a host on which every pull request is merged and was updated last at the
\* latest of UpdateTimes
AllMergedHost ==
    [n \in PRNumbers |->
        ChangeObject(n, CHOOSE u \in UpdateTimes : \A v \in UpdateTimes : v <= u, TRUE)]

\* nothing has run yet
Init ==
    /\ prs \in Hosts
    /\ tz \in TZOffsets
    /\ env \in SUBSET Credentials
    /\ now = 0
    /\ indexes = <<>>
    /\ stored_before = {}
    /\ retriever = <<>>
    /\ InitScript
    /\ InitCalls
    /\ InitAgentVars

\* the ingestion script, run and run again as time passes
NextIngest ==
    \/ Tick
    \/ ConstructEmbedder
    \/ FetchRecentPrsStep
    \/ EmbedPrDataStep
    \/ UpsertToPineconeStep

\* the ingestion script with every credential present
InitIngest ==
    /\ Init
    /\ env = Credentials

SpecIngest == InitIngest /\ [][NextIngest]_vars

\* data_pull.py has run once at hour 0; the Retriever is then built and used
InitRetrieve ==
    /\ prs \in Hosts
    /\ tz \in TZOffsets
    /\ env = Credentials
    /\ now = 0
    /\ \E embeddings_list \in [1..Cardinality(Merged) -> Vectors] :
          indexes = IndexesAfterIngest(0, tz, embeddings_list)
    /\ stored_before = {}
    /\ retriever = <<>>
    /\ InitScript
    /\ InitCalls
    /\ InitAgentVars

NextRetrieve ==
    \/ Tick
    \/ ConstructRetriever
    \/ SemanticSearchCall
    \/ GetDiffsCall
    \/ FindRelevantDiffsCall

SpecRetrieve == InitRetrieve /\ [][NextRetrieve]_vars

\* both programs on one host, with any set of credentials in the environment
InitConfig ==
    /\ Init
    /\ prs = AllMergedHost
    /\ tz = 0

NextConfig ==
    \/ ConstructEmbedder
    \/ FetchRecentPrsStep
    \/ EmbedPrDataStep
    \/ UpsertToPineconeStep
    \/ ConstructRetriever
    \/ SemanticSearchCall
    \/ GetDiffsCall
    \/ FindRelevantDiffsCall

SpecConfig == InitConfig /\ [][NextConfig]_vars

\* agent.py starts, at hour 0 or a search window later, after data_pull.py
\* indexed the host's pull requests at hour 0 with every credential present
InitAgent ==
    /\ prs = AllMergedHost
    /\ tz \in TZOffsets
    /\ env = Credentials
    /\ now \in {0, SearchWindowHours}
    /\ indexes = IndexesAfterIngest(0, tz, [i \in 1..NumPRs |-> 1])
    /\ stored_before = {}
    /\ retriever = FullClient
    /\ InitScript
    /\ InitCalls
    /\ InitAgentVars

NextAgent ==
    \/ CallLlm
    \/ TakeAction
    \/ PrintOutput

SpecAgent == InitAgent /\ [][NextAgent]_vars

\* the whole system
Next ==
    \/ NextIngest
    \/ NextRetrieve
    \/ NextAgent

Spec == Init /\ [][Next]_vars

(***************************************************************************)
(* Claims about the agent loop (SpecAgent)                                 *)
(***************************************************************************)
LastMessage(msgs) == msgs[Len(msgs)]

\* the loop is at Terminal: the graph reached END, and then printed
Terminal == apc \in {"END", "done"}

\* a Reasoning step: call_llm appended its message
ReasoningStep == apc = "llm" /\ op' = "call_llm" /\ messages' # messages

\* an Acting step
ActingStep == apc = "action" /\ op' = "take_action"

C1_AfterReasoning ==
    ReasoningStep =>
        /\ Len(messages') = Len(messages) + 1
        /\ LastMessage(messages').role = "ai"
        /\ (apc' = "action") <=> (Len(LastMessage(messages').tool_calls) >= 1)
        /\ (apc' = "END") <=> (Len(LastMessage(messages').tool_calls) = 0)

C1_TerminalOnlyFromReasoning ==
    (apc' = "END" /\ apc # "END") => (apc = "llm" /\ op' = "call_llm")

C1_AtTerminal ==
    /\ Terminal =>
          /\ LastMessage(messages).role = "ai"
          /\ LastMessage(messages).tool_calls = <<>>
    /\ apc = "done" => printed = <<LastMessage(messages).content>>

\* C1: after every Reasoning step the next state is Acting iff the
\* assistant message just appended holds one or more tool calls, otherwise
\* Terminal; Terminal is entered only from Reasoning; at Terminal the last
\* message is an assistant message without tool calls, and its content is
\* what the program prints.
C1_ReasoningDecidesNextState ==
    /\ [][C1_AfterReasoning /\ C1_TerminalOnlyFromReasoning]_vars
    /\ []C1_AtTerminal

\* C1 witness: the answer was printed after at least one Acting round
C1_Witness ==
    /\ apc = "done"
    /\ \E i \in 1..Len(messages) : messages[i].role = "tool"
    /\ printed = <<"answer 2">>

\* the tool calls an Acting step works on, and those with unknown names
PendingCalls == LastMessage(messages).tool_calls
UnknownCalls == {i \in 1..Len(PendingCalls) : PendingCalls[i].name \notin ToolNames}

\* C2: whenever the model requests a tool whose name is not registered,
\* take_action invokes no tool for that call (the tools invoked are exactly
\* the registered names requested, in order), appends for it a tool-result
\* message with the retry instruction, and the loop goes on to Reasoning:
\* never to Terminal, never aborted, whatever else the turn requests.
C2_UnknownToolIsAnsweredNotRun ==
    [][(ActingStep /\ UnknownCalls # {}) =>
          /\ apc' = "llm"
          /\ Len(messages') = Len(messages) + Len(PendingCalls)
          /\ \A i \in UnknownCalls :
                messages'[Len(messages) + i] =
                    ToolMessage(PendingCalls[i], "bad tool name, retry")
          /\ executed' = SelectSeq([i \in 1..Len(PendingCalls) |-> PendingCalls[i].name],
                                   LAMBDA n : n \in ToolNames)]_vars

\* C2 witness: an Acting step has answered a turn mixing a registered and an
\* unregistered name, and the loop is back at Reasoning
C2_Witness ==
    /\ op = "take_action"
    /\ apc = "llm"
    /\ executed # <<>>
    /\ \E i \in 1..Len(messages) : messages[i].content = "bad tool name, retry"
    /\ LastMessage(messages).role = "tool"
    /\ Len(messages) = 4

\* C3 (as claimed): the loop has a hard iteration cap: once MaxLlmCalls
\* reasoning steps were taken the loop has stopped, at Terminal or with a
\* "diagnosis inconclusive" result.
C3_LoopStopsAtCap ==
    LlmCalls(messages) >= MaxLlmCalls => apc \in {"END", "done", "inconclusive"}

\* the messages a step appended
Appended == SubSeq(messages', Len(messages) + 1, Len(messages'))

\* C11: every Acting step works through all tool calls of the latest
\* assistant message in their listed order (the tools invoked are the
\* registered names requested, in order), appends exactly one tool-result
\* message per tool call, the i-th carrying the id and the name of the i-th
\* call, whether its name is registered or not, and goes on to Reasoning,
\* never to Terminal.
C11_ActingAnswersEveryCall ==
    [][ActingStep =>
          /\ apc' = "llm"
          /\ Len(Appended) = Len(PendingCalls)
          /\ \A i \in 1..Len(PendingCalls) :
                /\ Appended[i].role = "tool"
                /\ Appended[i].tool_call_id = PendingCalls[i].id
                /\ Appended[i].name = PendingCalls[i].name
          /\ executed' = SelectSeq([i \in 1..Len(PendingCalls) |-> PendingCalls[i].name],
                                   LAMBDA n : n \in ToolNames)]_vars

\* C11 witness: an Acting step has answered a turn of two calls, the first
\* to an unregistered name and the second to find_relevant_diffs, with two
\* tool-result messages in that order
C11_Witness ==
    /\ op = "take_action"
    /\ apc = "llm"
    /\ Len(messages) = 4
    /\ messages[2].role = "ai"
    /\ messages[3] = ToolMessage([id |-> <<1, 1>>, name |-> "no_such_tool"],
                                 "bad tool name, retry")
    /\ messages[4] = ToolMessage([id |-> <<1, 2>>, name |-> "find_relevant_diffs"],
                                 "verdict")
    /\ executed = <<"find_relevant_diffs">>

\* C12: the conversation state is append-only: over every step the previous
\* message sequence is a prefix of the new one; a Reasoning step appends
\* exactly one assistant message, an Acting step appends only tool-result
\* messages; and the sequence always starts with the user's issue
\* description.
C12_MessagesAppendOnly ==
    /\ [][/\ Len(messages') >= Len(messages)
          /\ SubSeq(messages', 1, Len(messages)) = messages
          /\ ReasoningStep => (Len(Appended) = 1 /\ Appended[1].role = "ai")
          /\ ActingStep => \A i \in 1..Len(Appended) : Appended[i].role = "tool"]_vars
    /\ [](Len(messages) >= 1 /\ messages[1] = HumanMessage)

\* C12 witness: a session that reasoned, acted on two tool calls and
\* reasoned again, its five messages in the order they were appended
C12_Witness ==
    /\ apc = "END"
    /\ Len(messages) = 5
    /\ messages[1] = HumanMessage
    /\ messages[2].role = "ai" /\ Len(messages[2].tool_calls) = 2
    /\ messages[3].role = "tool" /\ messages[4].role = "tool"
    /\ messages[5] = AIMessage(2, <<>>)

(***************************************************************************)
(* Claims about the ingestion (SpecIngest)                                 *)
(***************************************************************************)
\* upsert_to_pinecone has just sent a non-empty batch to the index
AfterUpsert == op = "upsert_to_pinecone" /\ spc = "done" /\ embed_vectors # <<>>

BatchIds == {embed_vectors[i].id : i \in 1..Len(embed_vectors)}

\* the last tuple of the batch that carries the id
LatestInBatch(id) ==
    embed_vectors[CHOOSE i \in 1..Len(embed_vectors) :
                    /\ embed_vectors[i].id = id
                    /\ \A j \in 1..Len(embed_vectors) :
                          embed_vectors[j].id = id => j <= i]

\* C4: in every index each id appears at most once; after an upsert each id
\* of the batch has exactly one entry, holding the vector and metadata of the
\* latest upsert of that id, the entries of other ids are as they were, and
\* upserting the same batch once more leaves the index as it is.
C4_UpsertOverwritesById ==
    /\ \A name \in DOMAIN indexes : \A e1, e2 \in indexes[name] :
          e1.id = e2.id => e1 = e2
    /\ AfterUpsert =>
          /\ IndexName \in DOMAIN indexes
          /\ \A id \in BatchIds :
                {e \in indexes[IndexName] : e.id = id} = {LatestInBatch(id)}
          /\ {e \in indexes[IndexName] : e.id \notin BatchIds}
                = {e \in stored_before : e.id \notin BatchIds}
          /\ UpsertToPinecone(embedder, indexes, embed_vectors, IndexName).indexes
                = indexes

\* C4 witness: an id stored with one vector was upserted again with another
C4_Witness ==
    /\ AfterUpsert
    /\ \E e \in stored_before : \E f \in indexes[IndexName] :
          e.id = f.id /\ e.values # f.values

\* C5 (as claimed): embed_pr_data, when it returns, returns one entry per
\* input record, the i-th entry carrying the id and the metadata derived
\* from the i-th input; a response of another length is an error, never a
\* shorter list.
C5_EmbedReturnsOnePerInput ==
    (op = "embed_pr_data" /\ spc = "embedded") =>
        /\ Len(embed_vectors) = Len(recent_pull_requests)
        /\ \A i \in 1..Len(embed_vectors) :
              /\ embed_vectors[i].id = UrlLastSegment(recent_pull_requests[i].url)
              /\ embed_vectors[i].metadata = Metadata(recent_pull_requests[i])

\* the list requests of the last operation that were refused
FailedListRequests ==
    {i \in 1..Len(netlog) : netlog[i].kind = "list" /\ netlog[i].status # 200}

\* C7: when a list request of fetch_recent_prs gets a non-200 status, on
\* page 1 or on a later page, that request is the last one issued, no commit
\* request is issued and the result is the empty list.
C7_FailedListAbortsFetch ==
    (op = "fetch_recent_prs" /\ FailedListRequests # {}) =>
        /\ recent_pull_requests = <<>>
        /\ FailedListRequests = {Len(netlog)}
        /\ \A i \in 1..Len(netlog) : netlog[i].kind = "list"

\* C7 witness: page 1 was served and held recent pull requests, the request
\* for page 2 was refused, and the fetch returned nothing
C7_Witness ==
    /\ op = "fetch_recent_prs"
    /\ Len(netlog) = 2
    /\ netlog[1].kind = "list" /\ netlog[1].status = 200
    /\ netlog[2].kind = "list" /\ netlog[2].status # 200
    /\ \E n \in Merged : IsRecent(prs[n], now - HoursAgo)
    /\ recent_pull_requests = <<>>

\* the list requests of the last fetch_recent_prs, in the order issued
ListRequests == SelectSeq(netlog, LAMBDA r : r.kind = "list")

\* the host's records on the pages before page, in the order listed
RECURSIVE RecordsBefore(_)
RecordsBefore(page) ==
    IF page <= 1 THEN <<>> ELSE RecordsBefore(page - 1) \o ListPage(page - 1)

\* a page holds a record updated within the trailing HoursAgo window
HasRecent(page) ==
    \E i \in 1..Len(ListPage(page)) : IsRecent(ListPage(page)[i], now - HoursAgo)

\* the merged records updated within the window on the pages before page
ConsideredBefore(page) ==
    SelectSeq(RecordsBefore(page),
              LAMBDA pr : IsRecent(pr, now - HoursAgo) /\ pr.merged_at # <<>>)

\* C13: fetch_recent_prs requests the list pages 1, 2, 3, ... in that
\* order, before any other request; every page before the last one requested
\* held a record updated within the trailing HoursAgo window, and the last
\* one, when served, held none (it may be empty): the loop stops there, at
\* the latest one page past the host's last page; and every merged record
\* updated within the window on a page before the stopping page is in the
\* result, in page order.
C13_PagesInOrderUntilNoRecent ==
    op = "fetch_recent_prs" =>
        /\ Len(ListRequests) >= 1
        /\ Len(ListRequests) <= (NumPRs + PerPage - 1) \div PerPage + 1
        /\ \A i \in 1..Len(ListRequests) :
              /\ netlog[i] = ListRequests[i]
              /\ ListRequests[i].arg = i
        /\ \A i \in 1..(Len(ListRequests) - 1) :
              ListRequests[i].status = 200 /\ HasRecent(i)
        /\ ListRequests[Len(ListRequests)].status = 200 =>
              /\ ~HasRecent(Len(ListRequests))
              /\ [i \in 1..Len(recent_pull_requests) |-> recent_pull_requests[i].url]
                    = [i \in 1..Len(ConsideredBefore(Len(ListRequests))) |->
                          ConsideredBefore(Len(ListRequests))[i].html_url]

\* C13 witness: page 1 held a merged record updated within the window, page
\* 2 held a record but none updated within the window: the fetch stopped
\* after two list requests and returned the record of page 1
C13_Witness ==
    /\ op = "fetch_recent_prs"
    /\ Len(ListRequests) = 2
    /\ ListRequests[2].status = 200
    /\ ListPage(2) # <<>>
    /\ Len(recent_pull_requests) = 1

\* the commit requests of the last fetch_recent_prs, in the order issued
CommitRequests == SelectSeq(netlog, LAMBDA r : r.kind = "commit")

\* the host's pull request a returned record was built from
HostRecordOf(rec) == prs[UrlLastSegment(rec.url)]

\* C14: every record fetch_recent_prs returns was built from a host record
\* that has a merge timestamp and was updated within the trailing HoursAgo
\* window; a host record without a merge timestamp is in no result, recent
\* or not; and exactly one commit request was issued per returned record,
\* the i-th for the merge commit of the i-th record, whose merge description
\* is the message of that response, or the empty text when the response
\* carried none.
C14_OnlyMergedWithCommitMessage ==
    op = "fetch_recent_prs" =>
        /\ Len(CommitRequests) = Len(recent_pull_requests)
        /\ \A i \in 1..Len(recent_pull_requests) :
              /\ UrlLastSegment(recent_pull_requests[i].url) \in PRNumbers
              /\ recent_pull_requests[i].id = HostRecordOf(recent_pull_requests[i]).id
              /\ HostRecordOf(recent_pull_requests[i]).merged_at # <<>>
              /\ IsRecent(HostRecordOf(recent_pull_requests[i]), now - HoursAgo)
              /\ CommitRequests[i].arg
                    = HostRecordOf(recent_pull_requests[i]).merge_commit_sha
              /\ recent_pull_requests[i].merge_description
                    = IF CommitRequests[i].status = 200 THEN "merge message" ELSE ""
        /\ \A i, j \in 1..Len(recent_pull_requests) :
              recent_pull_requests[i].url = recent_pull_requests[j].url => i = j
        /\ \A n \in PRNumbers \ Merged :
              \A i \in 1..Len(recent_pull_requests) :
                  recent_pull_requests[i].url # prs[n].html_url

\* C14 witness: two records were updated within the window, one of them not
\* merged; the fetch returned the merged one only, with an empty merge
\* description because its commit response carried no message
C14_Witness ==
    /\ op = "fetch_recent_prs"
    /\ \E n \in PRNumbers \ Merged : IsRecent(prs[n], now - HoursAgo)
    /\ Len(ListRequests) > (NumPRs + PerPage - 1) \div PerPage
    /\ Len(recent_pull_requests) = 1
    /\ recent_pull_requests[1].merge_description = ""
    /\ CommitRequests[1].status # 200

\* C15 (as claimed): the id under which the vector of a change record is
\* upserted is the identifier of that change record.
C15_VectorIdIsRecordId ==
    (op = "embed_pr_data" /\ spc = "embedded") =>
        \A i \in 1..Len(embed_vectors) :
            embed_vectors[i].id = recent_pull_requests[i].id

\* positions of the create-index requests a call of upsert_to_pinecone issued
CreateRequests(log) == {i \in 1..Len(log) : log[i].kind = "create_index"}

\* what a call of upsert_to_pinecone with a non-empty vector list does
C16_NonEmptyCall ==
    /\ (CreateRequests(netlog') # {}) <=> (IndexName \notin DOMAIN indexes)
    /\ Cardinality(CreateRequests(netlog')) <= 1
    /\ netlog'[1].kind = "list_indexes"
    /\ \A i \in CreateRequests(netlog') :
          /\ i = 2
          /\ netlog'[i].arg = <<1024, "cosine">>
    /\ netlog'[Len(netlog')].kind = "upsert"
    /\ \A i \in 1..(Len(netlog') - 1) : netlog'[i].kind # "upsert"
    /\ IndexName \in DOMAIN indexes'

\* C16: a call of upsert_to_pinecone with vectors lists the indexes, issues
\* create-index (dimension 1024, cosine) exactly when the name is not among
\* them, once, and upserts the vectors after that; an index that exists
\* stays, so over any sequence of calls create-index is issued at most once
\* for the name; a call with an empty vector list issues no request and
\* leaves the index service as it is.
C16_CreateIndexOnlyWhenAbsent ==
    /\ [][(spc = "embedded" /\ op' = "upsert_to_pinecone") =>
             IF embed_vectors = <<>>
             THEN netlog' = <<>> /\ indexes' = indexes
             ELSE C16_NonEmptyCall]_vars
    /\ [][DOMAIN indexes \subseteq DOMAIN indexes']_vars

\* C16 witness: the second run of the script upserted vectors to the index
\* the first run had created and filled, without creating it again
C16_Witness ==
    /\ op = "upsert_to_pinecone"
    /\ runs = 2
    /\ embed_vectors # <<>>
    /\ stored_before # {}
    /\ Len(netlog) = 2
    /\ netlog[1].kind = "list_indexes"
    /\ netlog[2].kind = "upsert"

(***************************************************************************)
(* Claims about retrieval (SpecRetrieve)                                   *)
(***************************************************************************)
\* the ids the last semantic_search returned
ReturnedIds == {ret.items[i].id : i \in 1..Len(ret.items)}

\* the host's record of the last update of an indexed pull request is
\* within the search window at the time of the query
UpdatedWithinWindow(id) == prs[id].updated_at >= now - SearchWindowHours

\* C6 (as claimed): semantic_search returns no record whose last update, by
\* the host's UTC updated_at, is older than the query time minus 12 hours,
\* and a record updated within the last 12 hours is eligible (it is returned,
\* top_k exceeding the number of indexed records), whatever the time zone of
\* the collecting process.
C6_SearchExcludesOldRecords ==
    (op = "semantic_search" /\ ret.type = "matches") =>
        /\ \A id \in ReturnedIds : UpdatedWithinWindow(id)
        /\ Cardinality(indexes[IndexName]) <= TopK =>
              \A e \in indexes[IndexName] :
                  UpdatedWithinWindow(e.id) => e.id \in ReturnedIds

\* C8 (as claimed): get_diffs returns a mapping whose keys are the requested
\* ids, each mapped to the body the host returned, having issued one diff
\* request per id in list order: for the empty list an empty mapping and no
\* request.
C8_GetDiffsReturnsMapping ==
    op = "get_diffs" =>
        /\ ret.type = "dict"
        /\ DOMAIN ret.items = {ret.pr_ids[i] : i \in 1..Len(ret.pr_ids)}
        /\ Len(netlog) = Len(ret.pr_ids)
        /\ \A i \in 1..Len(netlog) :
              netlog[i].kind = "diff" /\ netlog[i].arg = ret.pr_ids[i]
        /\ \A k \in DOMAIN ret.items :
              ret.items[k] = DiffBody(k, retriever.github_token)

\* the stored entries that pass the 12-hour filter at the time of the call
Eligible ==
    IF IndexName \in DOMAIN indexes
    THEN {e \in indexes[IndexName] : e.metadata.updated_at >= now - SearchWindowHours}
    ELSE {}

\* C9: a call of find_relevant_diffs on an existing index does not fail,
\* also when nothing matches; it issues the search requests, then one diff
\* request for each id the search returned and for no other, then the
\* reasoner request; and the candidate set handed to the reasoner has
\* exactly those ids as keys, each with its url and its diff.
C9_ToolFetchesExactlyTheMatches ==
    (op = "find_relevant_diffs" /\ Cardinality(Eligible) <= TopK) =>
        /\ IndexName \in DOMAIN indexes => ret.type = "str"
        /\ ret.type = "str" =>
              /\ Len(netlog) = Cardinality(Eligible) + 3
              /\ netlog[1].kind = "embed_query"
              /\ netlog[2].kind = "query"
              /\ netlog[Len(netlog)].kind = "chat"
              /\ \A i \in 3..(Len(netlog) - 1) : netlog[i].kind = "diff"
              /\ {netlog[i].arg : i \in 3..(Len(netlog) - 1)} = {e.id : e \in Eligible}
              /\ DOMAIN reasoner_input = {e.id : e \in Eligible}
              /\ \A e \in Eligible :
                    reasoner_input[e.id] =
                        [url |-> e.metadata.url,
                         diff |-> DiffBody(e.id, retriever.github_token)]

\* C9 witness: two records are indexed, one passes the filter, and the tool
\* handed that one to the reasoner
C9_Witness ==
    /\ op = "find_relevant_diffs"
    /\ ret.type = "str"
    /\ Cardinality(Eligible) = 1
    /\ Cardinality(indexes[IndexName]) = 2
    /\ Cardinality(DOMAIN reasoner_input) = 1

(***************************************************************************)
(* Claims about credentials (SpecConfig)                                   *)
(***************************************************************************)
\* C10 (as claimed): no request is sent with a credential that is missing
\* from the environment: construction fails first.
C10_NoRequestWithoutCredential ==
    \A i \in 1..Len(netlog) : netlog[i].auth

=============================================================================
